---- MODULE Spec2Model ----
(***************************************************************************)
(* Model of charlotte_core/src/arch/x86_64/mod.rs: the x86_64 Api          *)
(* implementation (isa_init boot path, init_bsp, pmm_self_test, the ISA    *)
(* timer set-up, interrupt-flag and interrupt-handler operations).         *)
(***************************************************************************)
EXTENDS Integers, Sequences, FiniteSets, TLC

VARIABLES
    pc,                       \* position of the bootstrap processor in isa_init
    FRAMEBUFFER,              \* display surface: "dirty" | "cleared"
    BSP_TSS,                  \* Lazy<Tss>: "uninit" | "init"
    BSP_GDT,                  \* Lazy<Gdt>: "uninit" | "init"
    BSP_IDT,                  \* SpinMutex<Idt>: [exceptions |-> BOOLEAN]
    cpu,                      \* processor registers touched by the boot path
    tbls,                     \* isa_init local: result of acpi::parse()
    api,                      \* the Api value built by isa_init
    PHYSICAL_FRAME_ALLOCATOR, \* set of frames currently allocated
    self_test,                \* pmm_self_test locals: alloc, alloc2, alloc3, contiguous_alloc
    boot_trace,               \* history: boot states entered, in order
    IV_HANDLERS,              \* isa_handler table filled by register_iv_handler: the
                              \* handler of each vector that has one (the others are unset)
    call,                     \* history: the last Api operation invoked, its arguments and pre-state
    timer_log,                \* history: the timer set-ups logged by setup_isa_timer
    registered,               \* history: the <<h, vector>> pairs passed to register_iv_handler
    held                      \* spin locks held: <<lock, statement holding it>>

vars == <<pc, FRAMEBUFFER, BSP_TSS, BSP_GDT, BSP_IDT, cpu, tbls, api,
          PHYSICAL_FRAME_ALLOCATOR, self_test, boot_trace, IV_HANDLERS, call, timer_log,
          registered, held>>

(***************************************************************************)
(* Unsigned 64-bit values.  TLC integers are 32 bits wide, so a u64 is a   *)
(* tuple of four 16-bit limbs, most significant first.                     *)
(***************************************************************************)
Base == 2^16

U64Of(n) == <<0, 0, n \div Base, n % Base>>

\* x / m on u64, for 1 <= m < 2^15 (schoolbook long division, limb by limb)
DivU64(x, m) ==
    LET q1 == x[1] \div m
        r1 == x[1] % m
        n2 == r1 * Base + x[2]
        q2 == n2 \div m
        r2 == n2 % m
        n3 == r2 * Base + x[3]
        q3 == n3 \div m
        r3 == n3 % m
        n4 == r3 * Base + x[4]
        q4 == n4 \div m
    IN  <<q1, q2, q3, q4>>

\* x < y on u64
LtU64(x, y) ==
    \E i \in 1..4 : x[i] < y[i] /\ \A j \in 1..(i - 1) : x[j] = y[j]

\* u32::MAX as u64
U32_MAX == <<0, 0, Base - 1, Base - 1>>

\* `x as u32`: the low 32 bits, as two limbs
AsU32(x) == <<x[3], x[4]>>

(***************************************************************************)
(* Bounds of the model.                                                    *)
(***************************************************************************)
\* frames managed by the physical frame allocator: 0 .. NumFrames - 1
NumFrames == 384
\* allocate() may hand out any of the AllocChoices lowest free frames
AllocChoices == 2
\* largest requested timer rate tps passed to setup_isa_timer
MaxTps == 3

\* allocate_contiguous(256, 64) in pmm_self_test
ContiguousFrames == 256
ContiguousAlign == 64

Frames == 0..(NumFrames - 1)

(***************************************************************************)
(* Control flow of isa_init.  Each label is one statement of the source;   *)
(* init_bsp and pmm_self_test are inlined where isa_init calls them.       *)
(***************************************************************************)
\* BSP_GDT.load() forces Lazy BSP_GDT, whose initialiser Gdt::new(&BSP_TSS)
\* forces Lazy BSP_TSS first.
init_bsp_body_SwapIdt ==
    <<"BSP_TSS_new", "BSP_GDT_new", "BSP_GDT_load", "reload_segment_regs", "load_tss",
      "BSP_IDT_load", "load_exceptions", "asm_get_vendor_string">>

init_bsp_body ==
    <<"BSP_TSS_new", "BSP_GDT_new", "BSP_GDT_load", "reload_segment_regs", "load_tss",
      "load_exceptions", "BSP_IDT_load", "asm_get_vendor_string">>

pmm_self_test_body_MatchLate ==
    <<"let_alloc", "let_alloc2", "let_alloc3", "match_alloc", "deallocate_alloc2",
      "deallocate_alloc3", "let_contiguous_alloc", "match_contiguous_alloc">>

pmm_self_test_body ==
    <<"let_alloc", "let_alloc2", "match_alloc", "let_alloc3", "deallocate_alloc2",
      "deallocate_alloc3", "let_contiguous_alloc", "match_contiguous_alloc">>

isa_init_body_InterruptsFirst ==
    <<"clear_screen", "init_interrupts">> \o init_bsp_body \o <<"parse", "Api_new">>
      \o pmm_self_test_body \o <<"return">>

isa_init_body_SelfTestEarly ==
    <<"clear_screen">> \o init_bsp_body \o <<"parse", "Api_new">>
      \o pmm_self_test_body \o <<"init_interrupts", "return">>

isa_init_body ==
    <<"clear_screen">> \o init_bsp_body \o <<"parse", "Api_new", "init_interrupts">>
      \o pmm_self_test_body \o <<"return">>

\* the statement that follows label l; "ready" once isa_init has returned
NextPc(l) ==
    LET i == CHOOSE k \in 1..Len(isa_init_body) : isa_init_body[k] = l
    IN  IF i = Len(isa_init_body) THEN "ready" ELSE isa_init_body[i + 1]

\* the boot state entered when the statement at label l completes
BootStateAfter(l) ==
    CASE l = "clear_screen"           -> <<"DisplayCleared">>
      [] l = "asm_get_vendor_string"  -> <<"BootstrapProcessorReady">>
      [] l = "parse"                  -> <<"FirmwareParsed">>
      [] l = "Api_new"                -> <<"ControllerConstructed">>
      [] l = "init_interrupts"        -> <<"InterruptsEnabled">>
      [] l = "match_contiguous_alloc" -> <<"SelfTestComplete">>
      [] l = "return"                 -> <<"Ready">>
      [] OTHER                        -> <<>>

\* the spin lock statement l takes: a temporary guard from X.lock(), alive
\* until the end of the statement; the match arms lock only when taken
LockOf(l) ==
    CASE l = "clear_screen" -> "FRAMEBUFFER"
      [] l \in {"load_exceptions", "BSP_IDT_load", "init_interrupts"} -> "BSP_IDT"
      [] l \in {"let_alloc", "let_alloc2", "let_alloc3", "deallocate_alloc2",
                "deallocate_alloc3", "let_contiguous_alloc"} -> "PHYSICAL_FRAME_ALLOCATOR"
      [] l = "match_alloc" ->
            IF self_test.alloc.tag = "Ok" THEN "PHYSICAL_FRAME_ALLOCATOR" ELSE "none"
      [] l = "match_contiguous_alloc" ->
            IF self_test.contiguous_alloc.tag = "Ok" THEN "PHYSICAL_FRAME_ALLOCATOR"
                                                     ELSE "none"
      [] OTHER -> "none"

\* X.lock(): spins until nobody holds X, then statement pc holds it
lock ==
    /\ LockOf(pc) # "none"
    /\ \A h \in held : h[1] # LockOf(pc)
    /\ held' = held \cup {<<LockOf(pc), pc>>}
    /\ UNCHANGED <<pc, FRAMEBUFFER, BSP_TSS, BSP_GDT, BSP_IDT, cpu, tbls, api,
                   PHYSICAL_FRAME_ALLOCATOR, self_test, boot_trace, IV_HANDLERS, call,
                   timer_log, registered>>

\* statement l has taken the lock it works under
Locked(l) == LockOf(l) # "none" => <<LockOf(l), l>> \in held

\* the guard of statement l is dropped when the statement ends
guard_dropped_Leaked(l) == held

guard_dropped(l) == held \ {<<LockOf(l), l>>}

\* statement l has completed: control moves on and the boot state is recorded
Advance(l) ==
    /\ Locked(l)
    /\ held' = guard_dropped(l)
    /\ pc' = NextPc(l)
    /\ boot_trace' = boot_trace \o BootStateAfter(l)

\* a Rust panic: the processor never runs kernel code again
Panic ==
    /\ pc' = "panicked"
    /\ UNCHANGED <<boot_trace, held>>

(***************************************************************************)
(* External collaborators, modelled by their contracts.                    *)
(***************************************************************************)
\* Result<PhysicalAddress, Error> of the allocator calls; NoResult: not yet bound
NoResult == [tag |-> "none", frame |-> 0]
Err == [tag |-> "Err", frame |-> 0]
Ok(f) == [tag |-> "Ok", frame |-> f]

\* PHYSICAL_FRAME_ALLOCATOR.lock().allocate(): the possible <<result, allocator'>>
allocate(pfa) ==
    LET lowest == {f \in Frames : /\ f \notin pfa
                                  /\ Cardinality({g \in 0..(f - 1) : g \notin pfa})
                                        < AllocChoices}
    IN  {<<Err, pfa>>} \cup {<<Ok(f), pfa \cup {f}>> : f \in lowest}

\* PHYSICAL_FRAME_ALLOCATOR.lock().allocate_contiguous(n, align)
allocate_contiguous(pfa, n, align) ==
    LET bases == {b \in Frames : /\ b % align = 0
                                 /\ b + n <= NumFrames
                                 /\ pfa \cap (b..(b + n - 1)) = {}}
    IN  {<<Err, pfa>>} \cup {<<Ok(b), pfa \cup (b..(b + n - 1))>> : b \in bases}

\* PHYSICAL_FRAME_ALLOCATOR.lock().deallocate(frame): frees that one frame; an
\* error (frame not allocated) changes nothing.  Every caller drops the result.
deallocate(pfa, frame) == pfa \ {frame}

\* u64 tick rates the local APIC may report in bsp_apic.tps
TickRates ==
    {<<a, b, c[1], c[2]>> :
        a \in {0, 1},
        b \in {0, 9, 10, 20, 40, 80, 160, 320, 640, 1280},
        c \in {<<0, 0>>, <<Base - 1, Base - 10>>, <<Base - 1, Base - 1>>}}
    \cup {<<0, 0, 18206, 31584>>}

NoTimer == [configured |-> FALSE, mode |-> "none", counter |-> <<0, 0>>,
            divisor |-> 0, running |-> FALSE]

\* Apic::new(madt)
Apic_new(tps) == [tps |-> tps, enabled |-> FALSE, timer |-> NoTimer]

\* Apic::enable(&mut idt): the controller is switched on and interrupts unmasked
Apic_enable(apic) == [apic EXCEPT !.enabled = TRUE]

\* Apic::setup_timer(mode, counter, divisor)
Apic_setup_timer(apic, mode, counter, divisor) ==
    [apic EXCEPT !.timer = [configured |-> TRUE, mode |-> mode, counter |-> counter,
                            divisor |-> divisor, running |-> FALSE]]

\* Apic::start_timer()
Apic_start_timer(apic) == [apic EXCEPT !.timer.running = TRUE]

NoApi == [constructed |-> FALSE, acpi_info |-> "none",
          bsp_apic |-> Apic_new(<<0, 0, 0, 0>>), irq_flags |-> 0]

\* the locals of pmm_self_test, with the history of its allocator calls: log is
\* the calls made so far, before the set of allocated frames when it was entered
NoLocals == [alloc |-> NoResult, alloc2 |-> NoResult, alloc3 |-> NoResult,
             contiguous_alloc |-> NoResult, log |-> <<>>, before |-> {}]

\* one allocator call: its result, or for deallocate its argument, and whether
\* that frame was marked allocated when the call was made
Logged(log, op, r, pfa) ==
    Append(log, [op |-> op, tag |-> r.tag, frame |-> r.frame,
                 allocated |-> r.frame \in pfa])

NoCall == [op |-> "none", prev |-> "none", h |-> "none", vector |-> 0, tps |-> 0, mode |-> "none",
           if_before |-> FALSE, handlers_before |-> <<>>, registered_before |-> {},
           logged |-> <<0, 0, 0, 0>>, result |-> "none", trail |-> <<>>,
           api_before |-> NoApi, transport |-> "none"]

\* history kept across consecutive disable_interrupts / restore_interrupts calls:
\* the last four of them, each with the interrupt flag it found
Trail(trail, op, iflag) ==
    LET t == trail \o <<[op |-> op, if_before |-> iflag]>>
    IN  IF Len(t) > 4 THEN SubSeq(t, Len(t) - 3, Len(t)) ELSE t

\* frames in use when the kernel is entered
InitialAllocations == {{}, {0}}

(***************************************************************************)
(* Initial state: the bootloader has just entered the kernel on the BSP,   *)
(* interrupts masked, no descriptor table of the kernel loaded.            *)
(***************************************************************************)
Init ==
    /\ pc = isa_init_body[1]
    /\ FRAMEBUFFER = "dirty"
    /\ BSP_TSS = "uninit"
    /\ BSP_GDT = "uninit"
    /\ BSP_IDT = [exceptions |-> FALSE]
    /\ cpu = [gdtr |-> FALSE, segs |-> FALSE, tr |-> FALSE, idtr |-> FALSE,
              vendor |-> FALSE, iflag |-> FALSE, saved_flags |-> FALSE]
    /\ tbls = "none"
    /\ api = NoApi
    /\ PHYSICAL_FRAME_ALLOCATOR \in InitialAllocations
    /\ self_test = NoLocals
    /\ boot_trace = <<"PoweredOn">>
    /\ IV_HANDLERS = [v \in {} |-> "unset"]
    /\ call = NoCall
    /\ timer_log = {}
    /\ registered = {}
    /\ held = {}

(***************************************************************************)
(* isa_init                                                                *)
(***************************************************************************)
\* FRAMEBUFFER.lock().clear_screen(Color::BLACK)
clear_screen ==
    /\ pc = "clear_screen"
    /\ FRAMEBUFFER' = "cleared"
    /\ Advance("clear_screen")
    /\ UNCHANGED <<BSP_TSS, BSP_GDT, BSP_IDT, cpu, tbls, api,
                   PHYSICAL_FRAME_ALLOCATOR, self_test, IV_HANDLERS, call, timer_log, registered>>

\* Lazy BSP_TSS: Tss::new(addr_of!(BSP_RING0_INT_STACK))
BSP_TSS_new ==
    /\ pc = "BSP_TSS_new"
    /\ BSP_TSS' = "init"
    /\ Advance("BSP_TSS_new")
    /\ UNCHANGED <<FRAMEBUFFER, BSP_GDT, BSP_IDT, cpu, tbls, api,
                   PHYSICAL_FRAME_ALLOCATOR, self_test, IV_HANDLERS, call, timer_log, registered>>

\* Lazy BSP_GDT: Gdt::new(&BSP_TSS)
BSP_GDT_new ==
    /\ pc = "BSP_GDT_new"
    /\ BSP_GDT' = "init"
    /\ Advance("BSP_GDT_new")
    /\ UNCHANGED <<FRAMEBUFFER, BSP_TSS, BSP_IDT, cpu, tbls, api,
                   PHYSICAL_FRAME_ALLOCATOR, self_test, IV_HANDLERS, call, timer_log, registered>>

\* BSP_GDT.load()
BSP_GDT_load ==
    /\ pc = "BSP_GDT_load"
    /\ cpu' = [cpu EXCEPT !.gdtr = TRUE]
    /\ Advance("BSP_GDT_load")
    /\ UNCHANGED <<FRAMEBUFFER, BSP_TSS, BSP_GDT, BSP_IDT, tbls, api,
                   PHYSICAL_FRAME_ALLOCATOR, self_test, IV_HANDLERS, call, timer_log, registered>>

\* Gdt::reload_segment_regs()
reload_segment_regs ==
    /\ pc = "reload_segment_regs"
    /\ cpu' = [cpu EXCEPT !.segs = TRUE]
    /\ Advance("reload_segment_regs")
    /\ UNCHANGED <<FRAMEBUFFER, BSP_TSS, BSP_GDT, BSP_IDT, tbls, api,
                   PHYSICAL_FRAME_ALLOCATOR, self_test, IV_HANDLERS, call, timer_log, registered>>

\* Gdt::load_tss()
load_tss ==
    /\ pc = "load_tss"
    /\ cpu' = [cpu EXCEPT !.tr = TRUE]
    /\ Advance("load_tss")
    /\ UNCHANGED <<FRAMEBUFFER, BSP_TSS, BSP_GDT, BSP_IDT, tbls, api,
                   PHYSICAL_FRAME_ALLOCATOR, self_test, IV_HANDLERS, call, timer_log, registered>>

\* exceptions::load_exceptions(BSP_IDT.lock().borrow_mut())
load_exceptions ==
    /\ pc = "load_exceptions"
    /\ BSP_IDT' = [BSP_IDT EXCEPT !.exceptions = TRUE]
    /\ Advance("load_exceptions")
    /\ UNCHANGED <<FRAMEBUFFER, BSP_TSS, BSP_GDT, cpu, tbls, api,
                   PHYSICAL_FRAME_ALLOCATOR, self_test, IV_HANDLERS, call, timer_log, registered>>

\* BSP_IDT.lock().borrow().load()
BSP_IDT_load ==
    /\ pc = "BSP_IDT_load"
    /\ cpu' = [cpu EXCEPT !.idtr = TRUE]
    /\ Advance("BSP_IDT_load")
    /\ UNCHANGED <<FRAMEBUFFER, BSP_TSS, BSP_GDT, BSP_IDT, tbls, api,
                   PHYSICAL_FRAME_ALLOCATOR, self_test, IV_HANDLERS, call, timer_log, registered>>

\* asm_get_vendor_string(&mut vendor_string)
asm_get_vendor_string ==
    /\ pc = "asm_get_vendor_string"
    /\ cpu' = [cpu EXCEPT !.vendor = TRUE]
    /\ Advance("asm_get_vendor_string")
    /\ UNCHANGED <<FRAMEBUFFER, BSP_TSS, BSP_GDT, BSP_IDT, tbls, api,
                   PHYSICAL_FRAME_ALLOCATOR, self_test, IV_HANDLERS, call, timer_log, registered>>

\* let tbls = parse()
parse ==
    /\ pc = "parse"
    /\ tbls' = "parsed"
    /\ Advance("parse")
    /\ UNCHANGED <<FRAMEBUFFER, BSP_TSS, BSP_GDT, BSP_IDT, cpu, api,
                   PHYSICAL_FRAME_ALLOCATOR, self_test, IV_HANDLERS, call, timer_log, registered>>

\* let mut api = Api { acpi_info: tbls, bsp_apic: Apic::new(tbls.madt()), irq_flags: 0 }
Api_new ==
    /\ pc = "Api_new"
    /\ \E tps \in TickRates :
          api' = [constructed |-> TRUE, acpi_info |-> tbls,
                  bsp_apic |-> Apic_new(tps), irq_flags |-> 0]
    /\ Advance("Api_new")
    /\ UNCHANGED <<FRAMEBUFFER, BSP_TSS, BSP_GDT, BSP_IDT, cpu, tbls,
                   PHYSICAL_FRAME_ALLOCATOR, self_test, IV_HANDLERS, call, timer_log, registered>>

\* api.init_interrupts(): self.bsp_apic.enable(BSP_IDT.lock().borrow_mut());
\* enabling the controller also sets the interrupt flag of the processor
init_interrupts ==
    /\ pc = "init_interrupts"
    /\ api' = [api EXCEPT !.bsp_apic = Apic_enable(@)]
    /\ cpu' = [cpu EXCEPT !.iflag = TRUE]
    /\ Advance("init_interrupts")
    /\ UNCHANGED <<FRAMEBUFFER, BSP_TSS, BSP_GDT, BSP_IDT, tbls,
                   PHYSICAL_FRAME_ALLOCATOR, self_test, IV_HANDLERS, call, timer_log, registered>>

(***************************************************************************)
(* pmm_self_test, called from isa_init                                     *)
(***************************************************************************)
\* let alloc = PHYSICAL_FRAME_ALLOCATOR.lock().allocate()
let_alloc ==
    /\ pc = "let_alloc"
    /\ \E r \in allocate(PHYSICAL_FRAME_ALLOCATOR) :
          /\ self_test' = [self_test EXCEPT
                 !.alloc = r[1],
                 !.before = PHYSICAL_FRAME_ALLOCATOR,
                 !.log = Logged(@, "allocate", r[1], PHYSICAL_FRAME_ALLOCATOR)]
          /\ PHYSICAL_FRAME_ALLOCATOR' = r[2]
    /\ Advance("let_alloc")
    /\ UNCHANGED <<FRAMEBUFFER, BSP_TSS, BSP_GDT, BSP_IDT, cpu, tbls, api, IV_HANDLERS, call, timer_log, registered>>

\* let alloc2 = PHYSICAL_FRAME_ALLOCATOR.lock().allocate()
let_alloc2 ==
    /\ pc = "let_alloc2"
    /\ \E r \in allocate(PHYSICAL_FRAME_ALLOCATOR) :
          /\ self_test' = [self_test EXCEPT
                 !.alloc2 = r[1],
                 !.log = Logged(@, "allocate", r[1], PHYSICAL_FRAME_ALLOCATOR)]
          /\ PHYSICAL_FRAME_ALLOCATOR' = r[2]
    /\ Advance("let_alloc2")
    /\ UNCHANGED <<FRAMEBUFFER, BSP_TSS, BSP_GDT, BSP_IDT, cpu, tbls, api, IV_HANDLERS, call, timer_log, registered>>

\* match alloc { Ok(frame) => deallocate(frame), Err(e) => log }
match_alloc ==
    /\ pc = "match_alloc"
    /\ IF self_test.alloc.tag = "Ok"
       THEN /\ PHYSICAL_FRAME_ALLOCATOR' =
                  deallocate(PHYSICAL_FRAME_ALLOCATOR, self_test.alloc.frame)
            /\ self_test' = [self_test EXCEPT
                   !.log = Logged(@, "deallocate", self_test.alloc,
                                  PHYSICAL_FRAME_ALLOCATOR)]
       ELSE UNCHANGED <<PHYSICAL_FRAME_ALLOCATOR, self_test>>
    /\ Advance("match_alloc")
    /\ UNCHANGED <<FRAMEBUFFER, BSP_TSS, BSP_GDT, BSP_IDT, cpu, tbls, api,
                   IV_HANDLERS, call, timer_log, registered>>

\* let alloc3 = PHYSICAL_FRAME_ALLOCATOR.lock().allocate()
let_alloc3 ==
    /\ pc = "let_alloc3"
    /\ \E r \in allocate(PHYSICAL_FRAME_ALLOCATOR) :
          /\ self_test' = [self_test EXCEPT
                 !.alloc3 = r[1],
                 !.log = Logged(@, "allocate", r[1], PHYSICAL_FRAME_ALLOCATOR)]
          /\ PHYSICAL_FRAME_ALLOCATOR' = r[2]
    /\ Advance("let_alloc3")
    /\ UNCHANGED <<FRAMEBUFFER, BSP_TSS, BSP_GDT, BSP_IDT, cpu, tbls, api, IV_HANDLERS, call, timer_log, registered>>

\* let _ = PHYSICAL_FRAME_ALLOCATOR.lock().deallocate(alloc2.unwrap())
deallocate_alloc2 ==
    /\ pc = "deallocate_alloc2"
    /\ Locked("deallocate_alloc2")
    /\ IF self_test.alloc2.tag = "Ok"
       THEN /\ PHYSICAL_FRAME_ALLOCATOR' =
                  deallocate(PHYSICAL_FRAME_ALLOCATOR, self_test.alloc2.frame)
            /\ self_test' = [self_test EXCEPT
                   !.log = Logged(@, "deallocate", self_test.alloc2,
                                  PHYSICAL_FRAME_ALLOCATOR)]
            /\ Advance("deallocate_alloc2")
       ELSE /\ Panic
            /\ UNCHANGED <<PHYSICAL_FRAME_ALLOCATOR, self_test>>
    /\ UNCHANGED <<FRAMEBUFFER, BSP_TSS, BSP_GDT, BSP_IDT, cpu, tbls, api,
                   IV_HANDLERS, call, timer_log, registered>>

\* let _ = PHYSICAL_FRAME_ALLOCATOR.lock().deallocate(alloc3.unwrap())
deallocate_alloc3 ==
    /\ pc = "deallocate_alloc3"
    /\ Locked("deallocate_alloc3")
    /\ IF self_test.alloc3.tag = "Ok"
       THEN /\ PHYSICAL_FRAME_ALLOCATOR' =
                  deallocate(PHYSICAL_FRAME_ALLOCATOR, self_test.alloc3.frame)
            /\ self_test' = [self_test EXCEPT
                   !.log = Logged(@, "deallocate", self_test.alloc3,
                                  PHYSICAL_FRAME_ALLOCATOR)]
            /\ Advance("deallocate_alloc3")
       ELSE /\ Panic
            /\ UNCHANGED <<PHYSICAL_FRAME_ALLOCATOR, self_test>>
    /\ UNCHANGED <<FRAMEBUFFER, BSP_TSS, BSP_GDT, BSP_IDT, cpu, tbls, api,
                   IV_HANDLERS, call, timer_log, registered>>

\* let contiguous_alloc = PHYSICAL_FRAME_ALLOCATOR.lock().allocate_contiguous(256, 64)
let_contiguous_alloc ==
    /\ pc = "let_contiguous_alloc"
    /\ \E r \in allocate_contiguous(PHYSICAL_FRAME_ALLOCATOR, ContiguousFrames,
                                    ContiguousAlign) :
          /\ self_test' = [self_test EXCEPT
                 !.contiguous_alloc = r[1],
                 !.log = Logged(@, "allocate_contiguous", r[1],
                                PHYSICAL_FRAME_ALLOCATOR)]
          /\ PHYSICAL_FRAME_ALLOCATOR' = r[2]
    /\ Advance("let_contiguous_alloc")
    /\ UNCHANGED <<FRAMEBUFFER, BSP_TSS, BSP_GDT, BSP_IDT, cpu, tbls, api, IV_HANDLERS, call, timer_log, registered>>

\* match contiguous_alloc { Ok(frame) => deallocate(frame), Err(e) => log };
\* pmm_self_test then returns and its locals go out of scope (the history of
\* its calls is kept until isa_init returns)
match_contiguous_alloc ==
    /\ pc = "match_contiguous_alloc"
    /\ PHYSICAL_FRAME_ALLOCATOR' =
          IF self_test.contiguous_alloc.tag = "Ok"
          THEN deallocate(PHYSICAL_FRAME_ALLOCATOR, self_test.contiguous_alloc.frame)
          ELSE PHYSICAL_FRAME_ALLOCATOR
    /\ self_test' = [NoLocals EXCEPT
           !.before = self_test.before,
           !.log = IF self_test.contiguous_alloc.tag = "Ok"
                   THEN Logged(self_test.log, "deallocate", self_test.contiguous_alloc,
                               PHYSICAL_FRAME_ALLOCATOR)
                   ELSE self_test.log]
    /\ Advance("match_contiguous_alloc")
    /\ UNCHANGED <<FRAMEBUFFER, BSP_TSS, BSP_GDT, BSP_IDT, cpu, tbls, api, IV_HANDLERS, call, timer_log, registered>>

\* isa_init returns api to the kernel core
return ==
    /\ pc = "return"
    /\ self_test' = NoLocals
    /\ Advance("return")
    /\ UNCHANGED <<FRAMEBUFFER, BSP_TSS, BSP_GDT, BSP_IDT, cpu, tbls, api,
                   PHYSICAL_FRAME_ALLOCATOR, IV_HANDLERS, call, timer_log, registered>>

init_bsp ==
    \/ BSP_TSS_new
    \/ BSP_GDT_new
    \/ BSP_GDT_load
    \/ reload_segment_regs
    \/ load_tss
    \/ load_exceptions
    \/ BSP_IDT_load
    \/ asm_get_vendor_string

pmm_self_test ==
    \/ let_alloc
    \/ let_alloc2
    \/ match_alloc
    \/ let_alloc3
    \/ deallocate_alloc2
    \/ deallocate_alloc3
    \/ let_contiguous_alloc
    \/ match_contiguous_alloc

isa_init ==
    \/ lock
    \/ clear_screen
    \/ init_bsp
    \/ parse
    \/ Api_new
    \/ init_interrupts
    \/ pmm_self_test
    \/ return

Next == isa_init

Spec == Init /\ [][Next]_vars

(***************************************************************************)
(* Operations on the Api value after isa_init has returned it.             *)
(***************************************************************************)
HwTimerModes == {"OneShot", "Periodic"}

\* while divisor < 128
loop_continues_To64(divisor) == divisor < 64

loop_continues(divisor) == divisor < 128

\* if counter < u32::MAX as u64 { break; }
counter_fits_Inverted(counter) == ~LtU64(counter, U32_MAX)

counter_fits(counter) == LtU64(counter, U32_MAX)

\* the while loop of setup_isa_timer, entered with divisor = 1 and counter = 0;
\* yields the divisor and counter it leaves behind
RECURSIVE timer_loop(_, _, _, _)
timer_loop(apic_tps, tps, divisor, counter) ==
    IF loop_continues(divisor)
    THEN LET c == DivU64(DivU64(apic_tps, divisor), tps * 10)
         IN  IF counter_fits(c)
             THEN [divisor |-> divisor, counter |-> c]
             ELSE timer_loop(apic_tps, tps, (divisor * 2) % 256, c)
    ELSE [divisor |-> divisor, counter |-> counter]

\* fn setup_isa_timer(&mut self, tps: u32, mode: HwTimerMode, _: u16);
\* tps = 0 makes the division in the loop panic
setup_isa_timer(tps, mode) ==
    /\ pc = "ready"
    /\ IF tps = 0
       THEN /\ Panic
            /\ call' = [NoCall EXCEPT !.op = "setup_isa_timer", !.tps = tps,
                                      !.mode = mode, !.result = "panic"]
            /\ UNCHANGED <<api, timer_log>>
       ELSE LET r == timer_loop(api.bsp_apic.tps, tps, 1, U64Of(0))
            IN  /\ timer_log' = timer_log \cup
                      {[tps |-> tps, divisor |-> r.divisor, counter |-> r.counter]}
                /\ api' = [api EXCEPT !.bsp_apic =
                              Apic_setup_timer(@, mode, AsU32(r.counter), r.divisor)]
                /\ call' = [NoCall EXCEPT !.op = "setup_isa_timer", !.tps = tps,
                                          !.mode = mode, !.logged = r.counter,
                                          !.result = "returned"]
                /\ UNCHANGED <<pc, boot_trace, held>>
    /\ UNCHANGED <<FRAMEBUFFER, BSP_TSS, BSP_GDT, BSP_IDT, cpu, tbls,
                   PHYSICAL_FRAME_ALLOCATOR, self_test, IV_HANDLERS, registered>>

\* fn start_isa_timers(&self): self.bsp_apic.start_timer()
start_isa_timers ==
    /\ pc = "ready"
    /\ api' = [api EXCEPT !.bsp_apic = Apic_start_timer(@)]
    /\ call' = [NoCall EXCEPT !.op = "start_isa_timers", !.result = "returned"]
    /\ UNCHANGED <<held, pc, FRAMEBUFFER, BSP_TSS, BSP_GDT, BSP_IDT, cpu, tbls,
                   PHYSICAL_FRAME_ALLOCATOR, self_test, boot_trace, IV_HANDLERS,
                   timer_log, registered>>

\* the states in which isa_init hands the Api value to the kernel core, for the
\* tick rates `rates` of the local APIC
Ready(rates) ==
    /\ pc = "ready"
    /\ FRAMEBUFFER = "cleared"
    /\ BSP_TSS = "init"
    /\ BSP_GDT = "init"
    /\ BSP_IDT = [exceptions |-> TRUE]
    /\ cpu = [gdtr |-> TRUE, segs |-> TRUE, tr |-> TRUE, idtr |-> TRUE,
              vendor |-> TRUE, iflag |-> TRUE, saved_flags |-> FALSE]
    /\ tbls = "parsed"
    /\ \E tps \in rates :
          api = [constructed |-> TRUE, acpi_info |-> "parsed",
                 bsp_apic |-> Apic_enable(Apic_new(tps)), irq_flags |-> 0]
    /\ PHYSICAL_FRAME_ALLOCATOR \in InitialAllocations
    /\ self_test = NoLocals
    /\ boot_trace = <<"PoweredOn", "DisplayCleared", "BootstrapProcessorReady",
                      "FirmwareParsed", "ControllerConstructed", "InterruptsEnabled",
                      "SelfTestComplete", "Ready">>
    /\ IV_HANDLERS = [v \in {} |-> "unset"]
    /\ call = NoCall
    /\ timer_log = {}
    /\ registered = {}
    /\ held = {}

\* fn pause_isa_timers(&self): todo!()
pause_isa_timers_NoOp ==
    /\ pc = "ready"
    /\ call' = [NoCall EXCEPT !.op = "pause_isa_timers", !.api_before = api,
                              !.result = "returned"]
    /\ UNCHANGED <<held, pc, FRAMEBUFFER, BSP_TSS, BSP_GDT, BSP_IDT, cpu, tbls, api,
                   PHYSICAL_FRAME_ALLOCATOR, self_test, boot_trace, IV_HANDLERS,
                   timer_log, registered>>

pause_isa_timers ==
    /\ pc = "ready"
    /\ Panic
    /\ call' = [NoCall EXCEPT !.op = "pause_isa_timers", !.api_before = api,
                              !.result = "panic: not yet implemented"]
    /\ UNCHANGED <<FRAMEBUFFER, BSP_TSS, BSP_GDT, BSP_IDT, cpu, tbls, api,
                   PHYSICAL_FRAME_ALLOCATOR, self_test, IV_HANDLERS, timer_log, registered>>

NextTimer ==
    \/ \E tps \in 0..MaxTps, mode \in HwTimerModes : setup_isa_timer(tps, mode)
    \/ start_isa_timers
    \/ pause_isa_timers

InitTimer == Ready(TickRates)

SpecTimer == InitTimer /\ [][NextTimer]_vars

\* asm_are_interrupts_enabled()
asm_are_interrupts_enabled(c) == c.iflag

\* irq_disable(): keeps the interrupt flag as it is found, then masks interrupts
irq_disable(c) == [c EXCEPT !.saved_flags = c.iflag, !.iflag = FALSE]

\* irq_restore(): puts back the interrupt flag kept by irq_disable
irq_restore(c) == [c EXCEPT !.iflag = c.saved_flags]

\* register_iv_handler(h, vector): stores h as the handler of vector
register_iv_handler(handlers, h, vector) ==
    [v \in (DOMAIN handlers) \cup {vector} |-> IF v = vector THEN h ELSE handlers[v]]

\* fn interrupts_enabled(&self) -> bool
interrupts_enabled ==
    /\ pc = "ready"
    /\ call' = [NoCall EXCEPT !.op = "interrupts_enabled",
                              !.result = IF asm_are_interrupts_enabled(cpu)
                                         THEN "true" ELSE "false"]
    /\ UNCHANGED <<held, pc, FRAMEBUFFER, BSP_TSS, BSP_GDT, BSP_IDT, cpu, tbls, api,
                   PHYSICAL_FRAME_ALLOCATOR, self_test, boot_trace, IV_HANDLERS,
                   timer_log, registered>>

\* fn disable_interrupts(&mut self): irq_disable()
disable_interrupts ==
    /\ pc = "ready"
    /\ cpu' = irq_disable(cpu)
    /\ call' = [NoCall EXCEPT !.op = "disable_interrupts", !.if_before = cpu.iflag,
                              !.result = "returned",
                              !.trail = Trail(call.trail, "disable_interrupts", cpu.iflag)]
    /\ UNCHANGED <<held, pc, FRAMEBUFFER, BSP_TSS, BSP_GDT, BSP_IDT, tbls, api,
                   PHYSICAL_FRAME_ALLOCATOR, self_test, boot_trace, IV_HANDLERS,
                   timer_log, registered>>

\* fn restore_interrupts(&mut self): irq_restore()
restore_interrupts_NoOp ==
    /\ pc = "ready"
    /\ call' = [NoCall EXCEPT !.op = "restore_interrupts", !.prev = call.op,
                              !.if_before = call.if_before, !.result = "returned",
                              !.trail = Trail(call.trail, "restore_interrupts", cpu.iflag)]
    /\ UNCHANGED <<held, pc, FRAMEBUFFER, BSP_TSS, BSP_GDT, BSP_IDT, cpu, tbls, api,
                   PHYSICAL_FRAME_ALLOCATOR, self_test, boot_trace, IV_HANDLERS,
                   timer_log, registered>>

restore_interrupts ==
    /\ pc = "ready"
    /\ cpu' = irq_restore(cpu)
    /\ call' = [NoCall EXCEPT !.op = "restore_interrupts", !.prev = call.op,
                              !.if_before = call.if_before, !.result = "returned",
                              !.trail = Trail(call.trail, "restore_interrupts", cpu.iflag)]
    /\ UNCHANGED <<held, pc, FRAMEBUFFER, BSP_TSS, BSP_GDT, BSP_IDT, tbls, api,
                   PHYSICAL_FRAME_ALLOCATOR, self_test, boot_trace, IV_HANDLERS,
                   timer_log, registered>>

\* if vector > u8::MAX as u32
vector_too_large_Never(vector) == FALSE

vector_too_large_OffByOne(vector) == vector >= 255

vector_too_large(vector) == vector > 255

\* `vector as u8`
as_u8(vector) == vector % 256

\* fn set_interrupt_handler(&mut self, h: fn(vector: u64), vector: u32)
set_interrupt_handler(h, vector) ==
    /\ pc = "ready"
    /\ IF vector_too_large(vector)
       THEN /\ Panic
            /\ call' = [NoCall EXCEPT !.op = "set_interrupt_handler", !.h = h,
                           !.vector = vector, !.handlers_before = IV_HANDLERS,
                           !.registered_before = registered,
                           !.result = "panic: X86_64 can only have from iv 32 to iv 255 set"]
            /\ UNCHANGED <<IV_HANDLERS, registered>>
       ELSE /\ IV_HANDLERS' = register_iv_handler(IV_HANDLERS, h, as_u8(vector))
            /\ registered' = registered \cup {<<h, as_u8(vector)>>}
            /\ call' = [NoCall EXCEPT !.op = "set_interrupt_handler", !.h = h,
                           !.vector = vector, !.handlers_before = IV_HANDLERS,
                           !.registered_before = registered, !.result = "returned"]
            /\ UNCHANGED <<pc, boot_trace, held>>
    /\ UNCHANGED <<FRAMEBUFFER, BSP_TSS, BSP_GDT, BSP_IDT, cpu, tbls, api,
                   PHYSICAL_FRAME_ALLOCATOR, self_test, timer_log>>

\* fn init_ap(&mut self): the body holds a doc comment only
init_ap ==
    /\ pc = "ready"
    /\ call' = [NoCall EXCEPT !.op = "init_ap", !.api_before = api, !.result = "returned"]
    /\ UNCHANGED <<held, pc, FRAMEBUFFER, BSP_TSS, BSP_GDT, BSP_IDT, cpu, tbls, api,
                   PHYSICAL_FRAME_ALLOCATOR, self_test, boot_trace, IV_HANDLERS,
                   timer_log, registered>>

\* SerialPort::try_new(ComPort::COM1): the port is there, or it is not
SerialPort_try_new == {"Ok", "Err"}

\* SerialPort::try_new(ComPort::COM1).unwrap(), the body of get_logger and of
\* get_serial: the port, or a panic when there is none
try_new_unwrap(op, transport) ==
    /\ pc = "ready"
    /\ IF transport = "Ok"
       THEN /\ call' = [NoCall EXCEPT !.op = op, !.transport = transport,
                                      !.result = "SerialPort"]
            /\ UNCHANGED <<pc, boot_trace, held>>
       ELSE /\ Panic
            /\ call' = [NoCall EXCEPT !.op = op, !.transport = transport,
                                      !.result = "panic: unwrap"]
    /\ UNCHANGED <<FRAMEBUFFER, BSP_TSS, BSP_GDT, BSP_IDT, cpu, tbls, api,
                   PHYSICAL_FRAME_ALLOCATOR, self_test, IV_HANDLERS, timer_log, registered>>

\* fn get_logger() -> Self::DebugLogger
get_logger == \E transport \in SerialPort_try_new : try_new_unwrap("get_logger", transport)

\* fn get_serial(&self) -> Self::Serial
get_serial == \E transport \in SerialPort_try_new : try_new_unwrap("get_serial", transport)

\* handlers and vector arguments the kernel core passes to set_interrupt_handler
Handlers == {"h1", "h2"}
Vectors == {5, 32, 255, 256, 300}

NextApi ==
    \/ \E h \in Handlers, vector \in Vectors : set_interrupt_handler(h, vector)
    \/ interrupts_enabled
    \/ disable_interrupts
    \/ restore_interrupts
    \/ init_ap
    \/ get_logger
    \/ get_serial

\* the tick rate of the APIC plays no part in these operations
InitApi == Ready({<<0, 0, 18206, 31584>>})

SpecApi == InitApi /\ [][NextApi]_vars

(***************************************************************************)
(* Boot path: claims C1 - C3                                               *)
(***************************************************************************)
BootOrderWithTimer ==
    <<"PoweredOn", "DisplayCleared", "BootstrapProcessorReady", "FirmwareParsed",
      "ControllerConstructed", "InterruptsEnabled", "TimerConfigured",
      "SelfTestComplete", "Ready">>

BootOrder ==
    <<"PoweredOn", "DisplayCleared", "BootstrapProcessorReady", "FirmwareParsed",
      "ControllerConstructed", "InterruptsEnabled", "SelfTestComplete", "Ready">>

IsPrefix(s, t) == Len(s) <= Len(t) /\ \A i \in 1..Len(s) : s[i] = t[i]

\* C1: in every state of isa_init, the local interrupt controller is enabled (and
\* the processor's interrupt flag set) only when the exception vectors have been
\* registered in BSP_IDT and BSP_IDT has been loaded onto the processor.
C1_InterruptsOnlyAfterIdtLoaded ==
    (api.bsp_apic.enabled \/ cpu.iflag) => (BSP_IDT.exceptions /\ cpu.idtr)

C1_Witness ==
    /\ pc = "let_alloc"
    /\ api.bsp_apic.enabled
    /\ cpu.iflag
    /\ BSP_IDT.exceptions
    /\ cpu.idtr

C3_BringUpOrder ==
    /\ BSP_TSS = "init" => FRAMEBUFFER = "cleared"
    /\ BSP_GDT = "init" => BSP_TSS = "init"
    /\ cpu.gdtr => BSP_GDT = "init"
    /\ cpu.segs => cpu.gdtr
    /\ cpu.tr => cpu.segs
    /\ BSP_IDT.exceptions => cpu.tr
    /\ cpu.idtr => BSP_IDT.exceptions
    /\ cpu.vendor => cpu.idtr
    /\ pc = "parse" => cpu.vendor
    /\ tbls = "parsed" => cpu.vendor

C3_Witness ==
    /\ pc = "parse"
    /\ FRAMEBUFFER = "cleared"
    /\ BSP_TSS = "init"
    /\ BSP_GDT = "init"
    /\ cpu.gdtr /\ cpu.segs /\ cpu.tr /\ cpu.idtr /\ cpu.vendor
    /\ BSP_IDT.exceptions

(***************************************************************************)
(* Timer divisor / counter derivation: claims C4 - C6                      *)
(***************************************************************************)
Divisors == {1, 2, 4, 8, 16, 32, 64, 128}

\* 2^32 as u64
TwoTo32 == <<0, 1, 0, 0>>

\* (R / d) / (T * 10) is representable in an unsigned 32-bit counter
Representable(R, d, T) == LtU64(DivU64(DivU64(R, d), T * 10), TwoTo32)

FittingDivisors(R, T) == {d \in Divisors : Representable(R, d, T)}

SetupReturned == call.op = "setup_isa_timer" /\ call.tps >= 1

\* C4: whenever some divisor of {1,2,4,...,128} makes (R/d)/(T*10) representable
\* in 32 bits, setup_isa_timer applies the smallest such divisor.
C4_SmallestDivisor ==
    (SetupReturned /\ FittingDivisors(api.bsp_apic.tps, call.tps) # {}) =>
        LET fit == FittingDivisors(api.bsp_apic.tps, call.tps)
        IN  /\ api.bsp_apic.timer.divisor \in fit
            /\ \A d \in fit : api.bsp_apic.timer.divisor <= d

\* C5: when no divisor of {1,2,4,...,128} yields a counter representable in 32
\* bits, setup_isa_timer still returns: the loop ends with divisor 128 and the
\* configuration (128, computed counter truncated to 32 bits, requested mode) is
\* applied, the computed counter being out of the 32-bit range.
C5_NoDivisorFits ==
    (SetupReturned /\ FittingDivisors(api.bsp_apic.tps, call.tps) = {}) =>
        /\ pc = "ready"
        /\ call.result = "returned"
        /\ api.bsp_apic.timer.configured
        /\ api.bsp_apic.timer.divisor = 128
        /\ api.bsp_apic.timer.mode = call.mode
        /\ api.bsp_apic.timer.counter = <<call.logged[3], call.logged[4]>>
        /\ ~LtU64(call.logged, TwoTo32)

C5_Witness ==
    /\ SetupReturned
    /\ FittingDivisors(api.bsp_apic.tps, call.tps) = {}
    /\ api.bsp_apic.timer.divisor = 128
    /\ api.bsp_apic.timer.counter # <<0, 0>>

\* C6: for a fixed controller tick rate, of two set-ups with requested rates
\* T1 < T2 the one for T1 was given a divisor at least as large as the one for T2.
C6_DivisorMonotonic ==
    \A p \in timer_log, q \in timer_log : p.tps < q.tps => p.divisor >= q.divisor

C6_Witness ==
    \E p \in timer_log, q \in timer_log : p.tps < q.tps /\ p.divisor > q.divisor

(***************************************************************************)
(* Interrupt handlers and the interrupt flag: claims C7 - C10              *)
(***************************************************************************)
\* the handler of vector v in table t, "unset" when it has none
HandlerAt(t, v) == IF v \in DOMAIN t THEN t[v] ELSE "unset"

\* C7: set_interrupt_handler(h, v) with v > 255 fails with the invalid-vector
\* panic, register_iv_handler is not called (so v is not truncated to 8 bits) and
\* the handler table is left as it was.
C7_InvalidVectorRejected ==
    (call.op = "set_interrupt_handler" /\ call.vector > 255) =>
        /\ pc = "panicked"
        /\ call.result = "panic: X86_64 can only have from iv 32 to iv 255 set"
        /\ IV_HANDLERS = call.handlers_before
        /\ registered = call.registered_before

C7_Witness ==
    /\ call.op = "set_interrupt_handler"
    /\ call.vector > 255
    /\ pc = "panicked"
    /\ registered # {}
    /\ registered = call.registered_before

\* C8: no call of set_interrupt_handler passes a vector of 0..31, reserved for
\* the architecture exceptions, on to register_iv_handler.
C8_ReservedVectorsNeverRegistered ==
    \A r \in registered : r[2] \notin 0..31

\* C9: set_interrupt_handler(h, v) with 32 <= v <= 255 returns and registers
\* exactly (h, v): the vector reaches register_iv_handler unchanged by the
\* narrowing to 8 bits, and the handlers of the other vectors stay as they were.
C9_ValidVectorRegistered ==
    (call.op = "set_interrupt_handler" /\ call.vector \in 32..255) =>
        /\ pc = "ready"
        /\ call.result = "returned"
        /\ registered = call.registered_before \cup {<<call.h, call.vector>>}
        /\ \A v \in 0..255 :
              HandlerAt(IV_HANDLERS, v) =
                  IF v = call.vector THEN call.h ELSE HandlerAt(call.handlers_before, v)

C9_Witness ==
    /\ call.op = "set_interrupt_handler"
    /\ call.vector = 255
    /\ call.result = "returned"
    /\ HandlerAt(IV_HANDLERS, 255) = "h2"
    /\ HandlerAt(call.handlers_before, 255) = "h1"
    /\ HandlerAt(IV_HANDLERS, 32) = "h1"

C10_WitnessDisabledBefore ==
    /\ call.op = "restore_interrupts"
    /\ call.prev = "disable_interrupts"
    /\ ~call.if_before
    /\ ~cpu.iflag

(***************************************************************************)
(* Nesting of disable / restore and the saved flag: claims C11 - C12       *)
(***************************************************************************)
\* the operations of the trail, oldest first
TrailOps == [i \in 1..Len(call.trail) |-> call.trail[i].op]

\* C11: in disable_interrupts, disable_interrupts, restore_interrupts,
\* restore_interrupts started with interrupts enabled, interrupts are still masked
\* after the first restore and are enabled again after the second.
C11_NestedDisableRestore ==
    /\ ( /\ TrailOps = <<"disable_interrupts", "disable_interrupts", "restore_interrupts">>
         /\ call.trail[1].if_before ) => ~cpu.iflag
    /\ ( /\ TrailOps = <<"disable_interrupts", "disable_interrupts", "restore_interrupts",
                         "restore_interrupts">>
         /\ call.trail[1].if_before ) => cpu.iflag

\* the interrupt-enable bit (bit 9) of a saved RFLAGS value
InterruptBit(flags) == (flags \div 512) % 2 = 1

\* C12: after disable_interrupts, the irq_flags field of the Api value holds the
\* interrupt-enable flag of the processor as it was when the call was made.
C12_FlagsSavedInApi ==
    call.op = "disable_interrupts" => InterruptBit(api.irq_flags) = call.if_before

(***************************************************************************)
(* Unimplemented operations and the serial channel: claims C13, C14, C17   *)
(***************************************************************************)
\* C13: pause_isa_timers, in whatever state it is invoked, ends in the
\* not-implemented panic, never in a normal return, and leaves the timer
\* configuration and the rest of the Api value as they were.
C13_PauseNotImplemented ==
    call.op = "pause_isa_timers" =>
        /\ pc = "panicked"
        /\ call.result = "panic: not yet implemented"
        /\ api = call.api_before

C13_Witness ==
    /\ call.op = "pause_isa_timers"
    /\ pc = "panicked"
    /\ api.bsp_apic.timer.configured
    /\ api.bsp_apic.timer.running

\* C14: init_ap fails with a not-implemented condition and does not return
\* normally.
C14_InitApNotImplemented ==
    call.op = "init_ap" => (pc = "panicked" /\ call.result # "returned")

\* C17: when SerialPort::try_new(COM1) fails, get_logger and get_serial hand the
\* channel-unavailable condition to their caller as a value and do not panic.
C17_ChannelUnavailableIsAResult ==
    (call.op \in {"get_logger", "get_serial"} /\ call.transport = "Err") =>
        /\ pc = "ready"
        /\ call.result = "channel unavailable"

(***************************************************************************)
(* Consistency of the applied timer configuration: claim C20               *)
(***************************************************************************)
\* C20: the divisor setup_isa_timer applies is one of {1,2,4,...,128} and the
\* counter it applies is floor(floor(R / divisor) / (T * 10)) for that divisor.
C20_DivisorCounterConsistent ==
    SetupReturned =>
        /\ api.bsp_apic.timer.divisor \in Divisors
        /\ <<0, 0, api.bsp_apic.timer.counter[1], api.bsp_apic.timer.counter[2]>> =
              DivU64(DivU64(api.bsp_apic.tps, api.bsp_apic.timer.divisor), call.tps * 10)

(***************************************************************************)
(* Physical-memory self-test                                               *)
(***************************************************************************)
\* C15: the self-test always runs to completion: whatever the allocator
\* returns, no statement of the boot path panics
C15_SelfTestCompletes == pc # "panicked"

\* the frames of the run handed out by allocate_contiguous(256, 64)
ContiguousRun ==
    LET base == self_test.log[Len(self_test.log) - 1].frame
    IN  base..(base + ContiguousFrames - 1)

\* the contiguous step has succeeded and its match has deallocated
ContiguousStepDone ==
    /\ pc = "return"
    /\ Len(self_test.log) >= 2
    /\ self_test.log[Len(self_test.log) - 1].op = "allocate_contiguous"
    /\ self_test.log[Len(self_test.log) - 1].tag = "Ok"

\* C16: after a successful contiguous step no frame of the 256-frame run is
\* still marked allocated
C16_WholeRunDeallocated ==
    ContiguousStepDone => PHYSICAL_FRAME_ALLOCATOR \cap ContiguousRun = {}

\* the single-frame phase has ended and each of its three allocations succeeded
SinglePhaseDone ==
    /\ pc = "let_contiguous_alloc"
    /\ self_test.alloc.tag = "Ok"
    /\ self_test.alloc2.tag = "Ok"
    /\ self_test.alloc3.tag = "Ok"

SinglePhaseOps ==
    <<"allocate", "allocate", "deallocate", "allocate", "deallocate", "deallocate">>

\* C18: when every allocation of the single-frame phase succeeds the calls are
\* allocate A, allocate B, deallocate A, allocate C, deallocate B, deallocate C;
\* every frame obtained is deallocated as often as it was obtained, no frame is
\* deallocated while it is not allocated or handed out while it is, and the
\* set of allocated frames at the end equals the set before the phase
C18_SinglePhaseOrder ==
    SinglePhaseDone =>
        LET log == self_test.log
        IN  /\ [i \in 1..Len(log) |-> log[i].op] = SinglePhaseOps
            /\ log[3].frame = log[1].frame
            /\ log[5].frame = log[2].frame
            /\ log[6].frame = log[4].frame
            /\ log[2].frame # log[1].frame
            /\ \A i \in 1..Len(log) : log[i].allocated = (log[i].op = "deallocate")
            /\ \A f \in {log[i].frame : i \in 1..Len(log)} :
                  Cardinality({i \in 1..Len(log) : log[i].op = "allocate"
                                                    /\ log[i].frame = f})
                    = Cardinality({i \in 1..Len(log) : log[i].op = "deallocate"
                                                      /\ log[i].frame = f})
            /\ PHYSICAL_FRAME_ALLOCATOR = self_test.before

\* the allocator hands the frame of A out again as C
C18_Witness == SinglePhaseDone /\ self_test.alloc3.frame = self_test.alloc.frame

(***************************************************************************)
(* Locks of the boot path                                                  *)
(***************************************************************************)
Locks == {"FRAMEBUFFER", "BSP_IDT", "PHYSICAL_FRAME_ALLOCATOR"}

\* C19: throughout isa_init at most one of the locks is held at any moment, a
\* lock is held only by the statement being executed (it is released before
\* the next statement, hence before the next acquisition), and the statement
\* about to lock never finds its lock held, so the boot path cannot spin on a
\* lock it holds itself
C19_OneLockAtATime ==
    /\ Cardinality(held) <= 1
    /\ \A h \in held : h[1] \in Locks
    /\ pc # "panicked" => \A h \in held : h = <<LockOf(pc), pc>>

\* the allocator lock is held inside the Ok arm of the first match, after the
\* framebuffer and BSP_IDT locks have been taken and released
C19_Witness ==
    /\ pc = "match_alloc"
    /\ held = {<<"PHYSICAL_FRAME_ALLOCATOR", "match_alloc">>}
    /\ FRAMEBUFFER = "cleared"
    /\ api.bsp_apic.enabled

====
